---------------------------- MODULE Spec2Model ----------------------------
(***************************************************************************)
(* A model of the UG96 cellular-modem driver (src/UG96.js): the URC        *)
(* receive handlers, the modem initialisation sequence, the PDP connect    *)
(* exchange and the socket multiplexer.                                    *)
(*                                                                         *)
(* JavaScript strings are sequences of one-character strings, indexed from *)
(* 0 as in the source; the string helpers below follow the JavaScript      *)
(* definitions of indexOf, substr, substring and split.                    *)
(***************************************************************************)
EXTENDS Integers, Sequences, FiniteSets, TLC

VARIABLES
    \* ---- driver state (src/UG96.js:79-115)
    socks,        \* socks[i]: "undefined" | "true" | "Wait" | "tobeclosed"
    sockData,     \* sockData[i]: the inbound buffer of socket i
    busy,         \* the send-busy flag
    \* ---- URC dispatch
    line,         \* the text the AT engine holds for the next dispatch
    wire,         \* the chunks the serial link has still to deliver
    rx,           \* the notification being delivered (history)
    rxsteps,      \* the handlers invoked so far (history)
    \* ---- init() (src/UG96.js:599-869) and connect() (src/UG96.js:917-952)
    s,            \* the state of the initialisation sequence
    atSync,       \* failed synchronisation probes
    attRetry,     \* failed PS attachments
    signal_quality_report,
    flowcontrol,  \* set by initflowctrl()
    ccid,         \* the cached SIM identifier
    eng,          \* init's command at the engine, or its pending timer
    cbLog,        \* what init's callback was invoked with (history)
    issued,       \* how often init issued AT, AT+CGATT=1, AT+COPS=0 (history)
    nAttachErr,   \* attach commands answered with an error (history)
    okLog,        \* the steps of init achieved, the latest last (history)
    csq,          \* the last reading of the signal-quality query (history)
    cs,           \* connect()'s state: 0 configuration, 1 activation
    ceng,         \* connect()'s command at the engine
    connCb,       \* what connect()'s callback was invoked with (history)
    nConnect,     \* connect() calls made (history)
    \* ---- the socket multiplexer and the AT engine
    dbg,          \* debug messages enabled
    atq,          \* the engine's commands: the outstanding one, then those waiting
    timers,       \* the driver's pending timers, in the order they were set
    promptH,      \* the send whose '>' handler is registered, 0 for none
    lineH,        \* the send whose SEND OK/SEND FAIL/ERROR handlers are registered
    nSend,        \* sends accepted so far
    writes,       \* what send() wrote to the engine (history)
    await,        \* payloads written and not answered yet
    term,         \* the sends a terminal condition has fired for (history)
    budget,       \* create() and close() calls made (history)
    realloc,      \* slots created again while a close of them was deferred (history)
    last,         \* the last call or event (history)
    \* ---- geolocalisation (src/UG96.js:107-110, 981-1019)
    geoPos,       \* the service is running
    longlat,      \* the cached "longitude,latitude" text
    geoq,         \* the location queries at the engine: the period of each
    geot,         \* the pending re-trigger timers: the period of each
    geoLast,      \* the last geolocalisation event (history)
    \* ---- the MQTT client's data handler (src/MQTT.js:213-242)
    partData,     \* mqo.partData: the bytes kept of an incomplete packet
    mqIn,         \* the chunks the socket has still to deliver
    mqOut,        \* the messages emitted with 'publish' so far (history)
    mqSrc         \* the messages of the packets the broker sent (history)

recvVars == <<line, wire, rx, rxsteps>>
sockVars == <<socks, busy, dbg, atq, timers, promptH, lineH, nSend, writes,
             await, term, budget, realloc, last>>
initVars == <<s, atSync, attRetry, signal_quality_report, flowcontrol, ccid,
              eng, cbLog, issued, nAttachErr, okLog, csq>>
connVars == <<cs, ceng, connCb, nConnect>>
geoVars == <<geoPos, longlat, geoq, geot, geoLast>>
mqttVars == <<partData, mqIn, mqOut, mqSrc>>
vars == <<socks, sockData, busy, line, wire, rx, rxsteps,
          s, atSync, attRetry, signal_quality_report, flowcontrol, ccid,
          eng, cbLog, issued, nAttachErr, okLog, csq, cs, ceng, connCb, nConnect,
          dbg, atq, timers, promptH, lineH, nSend, writes, await, term, budget,
          realloc, last, geoPos, longlat, geoq, geot, geoLast,
          partData, mqIn, mqOut, mqSrc>>

(***************************************************************************)
(* Program constants and bounds of the model.                              *)
(***************************************************************************)
\* The number of client sockets (src/UG96.js:98).
MAXSOCKETS == 12
\* The longest payload a receive notification declares.
MaxPayload == 3

Min(a, b) == IF a < b THEN a ELSE b
Max(a, b) == IF a > b THEN a ELSE b

(***************************************************************************)
(* JavaScript string operations.                                           *)
(***************************************************************************)
\* String.prototype.indexOf: the first 0-based position of pat, or -1.
indexOf(str, pat) ==
    LET hits == {i \in 0..(Len(str) - Len(pat)) :
                    SubSeq(str, i + 1, i + Len(pat)) = pat}
    IN  IF hits = {} THEN -1
        ELSE CHOOSE i \in hits : \A j \in hits : i <= j

\* String.prototype.substr(start, length), start >= 0.
substr(str, start, n) ==
    LET st == Min(Max(start, 0), Len(str))
        en == Min(st + Max(n, 0), Len(str))
    IN  SubSeq(str, st + 1, en)

\* String.prototype.substr(start): to the end of the string.
substrFrom(str, start) ==
    SubSeq(str, Min(Max(start, 0), Len(str)) + 1, Len(str))

\* String.prototype.substring(a, b): clamps, and swaps when a > b.
substring(str, a, b) ==
    LET a1 == Min(Max(a, 0), Len(str))
        b1 == Min(Max(b, 0), Len(str))
    IN  SubSeq(str, Min(a1, b1) + 1, Max(a1, b1))

\* String.prototype.split(","): the fields between the commas.
RECURSIVE split(_)
split(str) ==
    LET c == indexOf(str, <<",">>)
    IN  IF c < 0 THEN <<str>>
        ELSE <<SubSeq(str, 1, c)>> \o split(SubSeq(str, c + 2, Len(str)))

Digits == <<"0", "1", "2", "3", "4", "5", "6", "7", "8", "9">>
IsDigit(c) == \E d \in 1..10 : Digits[d] = c
DigitVal(c) == (CHOOSE d \in 1..10 : Digits[d] = c) - 1

RECURSIVE DecVal(_)
DecVal(str) ==
    IF str = <<>> THEN 0
    ELSE 10 * DecVal(SubSeq(str, 1, Len(str) - 1)) + DigitVal(str[Len(str)])

\* 0|field: ToInt32 of a field of split().  A missing field (undefined), an
\* empty string and a string that is not a number all give 0; a string of
\* decimal digits gives its value.
ToInt32(fields, i) ==
    IF i > Len(fields) THEN 0
    ELSE LET str == fields[i]
         IN  IF str # <<>> /\ \A k \in 1..Len(str) : IsDigit(str[k])
             THEN DecVal(str) ELSE 0

\* String concatenation with a non-negative number: its decimal digits.
RECURSIVE NumToStr(_)
NumToStr(n) ==
    IF n < 10 THEN <<Digits[n + 1]>>
    ELSE NumToStr(n \div 10) \o <<Digits[(n % 10) + 1]>>

CRLF == <<"\r", "\n">>
\* '+QIURC: "recv",' : the 15 characters before the parameters.
RecvHeader ==
    <<"+", "Q", "I", "U", "R", "C", ":", " ", "\"", "r", "e", "c", "v", "\"", ",">>
\* The prefix receiveHandler is registered for (src/UG96.js:1077).
RecvPrefix == SubSeq(RecvHeader, 1, 14)
\* The prefix receiveHandler2 is registered for (src/UG96.js:1078).
ContPrefix == <<"+", "D">>

StartsWith(str, p) == Len(str) >= Len(p) /\ SubSeq(str, 1, Len(p)) = p

\* sockData[key] += text, where key is the string parms[0]: an array index
\* when it is the decimal form of an index of the table.
AppendData(sd, key, text) ==
    LET i == ToInt32(<<key>>, 1)
    IN  IF key = NumToStr(i) /\ i \in DOMAIN sd
        THEN [sd EXCEPT ![i] = @ \o text]
        ELSE sd

(***************************************************************************)
(* The URC receive handlers.  Each takes the socket buffers and the text   *)
(* the engine dispatches, and gives the new buffers and the string it      *)
(* returns to the engine.                                                  *)
(***************************************************************************)
\* The token "+D,<id>,<remaining>:" both handlers return for a partial payload.
ContToken(key, remaining) ==
    <<"+", "D", ",">> \o key \o <<",">> \o NumToStr(remaining) \o <<":">>

\* receiveHandler with the token's count left at the declared length.
receiveHandler_TokenKeepsLength(sd, ln) ==
    LET colon == indexOf(ln, CRLF)
    IN  IF colon < 0 THEN [sockData |-> sd, ret |-> ln]
        ELSE
          LET parms == split(substring(ln, 15, colon))
              n     == ToInt32(parms, 2)
              len   == Len(ln) - (colon + 2)
          IN  IF len >= n
              THEN [sockData |-> AppendData(sd, parms[1], substr(ln, colon + 2, n)),
                    ret      |-> substrFrom(ln, colon + n + 3)]
              ELSE [sockData |-> AppendData(sd, parms[1], substr(ln, colon + 2, len)),
                    ret      |-> ContToken(parms[1], n)]

receiveHandler(sd, ln) ==
    LET colon == indexOf(ln, CRLF)
    IN  IF colon < 0 THEN [sockData |-> sd, ret |-> ln]
        ELSE
          LET parms == split(substring(ln, 15, colon))
              n     == ToInt32(parms, 2)
              len   == Len(ln) - (colon + 2)
          IN  IF len >= n
              THEN [sockData |-> AppendData(sd, parms[1], substr(ln, colon + 2, n)),
                    ret      |-> substrFrom(ln, colon + n + 3)]
              ELSE [sockData |-> AppendData(sd, parms[1], substr(ln, colon + 2, len)),
                    ret      |-> ContToken(parms[1], n - len)]

\* receiveHandler2 with the token's count left as it was.
receiveHandler2_TokenKeepsLength(sd, ln) ==
    LET colon == indexOf(ln, <<":">>)
    IN  IF colon < 0 THEN [sockData |-> sd, ret |-> ln]
        ELSE
          LET parms == split(substring(ln, 3, colon))
              n     == ToInt32(parms, 2)
              len   == Len(ln) - (colon + 1)
          IN  IF len >= n
              THEN [sockData |-> AppendData(sd, parms[1], substr(ln, colon + 1, n)),
                    ret      |-> substrFrom(ln, colon + n + 1)]
              ELSE [sockData |-> AppendData(sd, parms[1], substr(ln, colon + 1, len)),
                    ret      |-> ContToken(parms[1], n)]

receiveHandler2(sd, ln) ==
    LET colon == indexOf(ln, <<":">>)
    IN  IF colon < 0 THEN [sockData |-> sd, ret |-> ln]
        ELSE
          LET parms == split(substring(ln, 3, colon))
              n     == ToInt32(parms, 2)
              len   == Len(ln) - (colon + 1)
          IN  IF len >= n
              THEN [sockData |-> AppendData(sd, parms[1], substr(ln, colon + 1, n)),
                    ret      |-> substrFrom(ln, colon + n + 1)]
              ELSE [sockData |-> AppendData(sd, parms[1], substr(ln, colon + 1, len)),
                    ret      |-> ContToken(parms[1], n - len)]

(***************************************************************************)
(* Delivery of one receive notification over the serial link.              *)
(***************************************************************************)
\* The bytes a payload or the text after it is made of.
RxAlphabet == {"a", ":", "\r", "\n"}
RxStrings(n) == UNION {[1..m -> RxAlphabet] : m \in 0..n}
\* What follows the payload in the same dispatch.
RxTails == {<<>>, CRLF, <<"X", "Y">>}
\* The sockets notifications are addressed to.
RxSockets == {0, MAXSOCKETS - 1}
\* The buffer a socket holds before the notification.
RxBuffers == {<<>>, <<"z">>}

\* '+QIURC: "recv",<id>,<length>\r\n'
RecvNotification(sid, payload) ==
    RecvHeader \o NumToStr(sid) \o <<",">> \o NumToStr(Len(payload)) \o CRLF

\* The dispatches of a notification split after k payload bytes; with
\* k = Len(payload) one dispatch holds the notification and what follows.
RxChunks(sid, payload, tail, k) ==
    LET whole == RecvNotification(sid, payload) \o payload \o tail
        first == RecvNotification(sid, payload) \o SubSeq(payload, 1, k)
        rest  == SubSeq(payload, k + 1, Len(payload)) \o tail
    IN  IF k = Len(payload) THEN <<whole>> ELSE <<first, rest>>

\* The elements of a set of numbers in increasing order.
RECURSIVE Ascending(_)
Ascending(S) ==
    IF S = {} THEN <<>>
    ELSE LET lo == CHOOSE x \in S : \A y \in S : x <= y
         IN  <<lo>> \o Ascending(S \ {lo})

\* The dispatches of a notification whose payload is cut after each of the
\* byte counts in cuts: the first holds the notification and the bytes
\* before the first cut, the last holds what follows the payload as well.
RxPieces(sid, payload, tail, cuts) ==
    LET at == Ascending(cuts) \o <<Len(payload)>>
    IN  [j \in 1..Len(at) |->
           IF j = 1
           THEN RecvNotification(sid, payload) \o SubSeq(payload, 1, at[1])
           ELSE SubSeq(payload, at[j - 1] + 1, at[j]) \o
                (IF j = Len(at) THEN tail ELSE <<>>)]

IdleRecv ==
    /\ line = <<>>
    /\ wire = <<>>
    /\ rx = [sid |-> 0, payload |-> <<>>, tail |-> <<>>, k |-> 0, pre |-> <<>>]
    /\ rxsteps = <<>>

InitRecv ==
    \E sid \in RxSockets, payload \in RxStrings(MaxPayload),
       tail \in RxTails, pre \in RxBuffers :
      \E k \in 0..Len(payload) :
        /\ sockData = [i \in 0..MAXSOCKETS |-> pre]
        /\ line = <<>>
        /\ wire = RxChunks(sid, payload, tail, k)
        /\ rx = [sid |-> sid, payload |-> payload, tail |-> tail, k |-> k,
                 pre |-> pre]
        /\ rxsteps = <<>>

\* The serial link delivers the next chunk; the engine appends it to the
\* text it holds and dispatches to the handler registered for its prefix,
\* which returns the text the engine holds next.
DispatchRecv ==
    /\ wire # <<>>
    /\ StartsWith(line \o Head(wire), RecvPrefix)
    /\ LET r == receiveHandler(sockData, line \o Head(wire))
       IN  /\ sockData' = r.sockData
           /\ line' = r.ret
    /\ wire' = Tail(wire)
    /\ rxsteps' = Append(rxsteps, "receiveHandler")
    /\ UNCHANGED <<rx, sockVars, initVars, connVars, geoVars, mqttVars>>

DispatchRecv2 ==
    /\ wire # <<>>
    /\ StartsWith(line \o Head(wire), ContPrefix)
    /\ LET r == receiveHandler2(sockData, line \o Head(wire))
       IN  /\ sockData' = r.sockData
           /\ line' = r.ret
    /\ wire' = Tail(wire)
    /\ rxsteps' = Append(rxsteps, "receiveHandler2")
    /\ UNCHANGED <<rx, sockVars, initVars, connVars, geoVars, mqttVars>>

\* A notification whose payload arrives over two dispatches or more.
InitCont ==
    \E sid \in RxSockets, payload \in RxStrings(MaxPayload),
       tail \in RxTails, pre \in RxBuffers :
      \E cuts \in (SUBSET (0..(Len(payload) - 1))) \ {{}} :
        /\ sockData = [i \in 0..MAXSOCKETS |-> pre]
        /\ line = <<>>
        /\ wire = RxPieces(sid, payload, tail, cuts)
        /\ rx = [sid |-> sid, payload |-> payload, tail |-> tail,
                 k |-> Ascending(cuts)[1], pre |-> pre]
        /\ rxsteps = <<>>

NextRecv == DispatchRecv \/ DispatchRecv2

(***************************************************************************)
(* The socket multiplexer (netCallbacks, openSocket, closeSocket).         *)
(*                                                                         *)
(* The AT engine is outside the driver.  atq holds its commands in order:  *)
(* the head is the outstanding one, whose handler the engine calls with    *)
(* each answer line or with undefined at its time-out; the others wait.    *)
(* A handler that returns itself keeps its command outstanding; otherwise  *)
(* the command ends and the next one is issued.  A command issued from     *)
(* inside a handler is issued at once, ahead of those waiting.             *)
(***************************************************************************)
\* Calls of create() (client or server) in one run of the model.
MaxCreates == 2
\* Calls of close() in one run of the model.
MaxCloses == 1
\* Accepted calls of send() in one run of the model.
MaxSends == 1
\* Client slots free when the run starts with a used table.
FreeSlots == 1
\* if (data.length > 1460): the payload is refused (src/UG96.js:325).
MaxData == 1460
\* if (counter < 5): the open is repeated (src/UG96.js:155).
OpenRetryLimit == 5

\* The sockets the layer above calls close() and send() with.
ApiSockets == {0, MAXSOCKETS - 1}
\* The payload lengths it sends.
SendLens == {MaxData, MaxData + 1}
\* The ports it opens.
Ports == {80, 443}

isBusy == atq # <<>>

AtCommand(c, sckt, counter) == [cmd |-> c, sckt |-> sckt, counter |-> counter]

\* setTimeout delays of the driver's timers, in ms.
Delay(t) ==
    CASE t.kind \in {"prompt", "rsp"} -> 1000
      [] t.kind = "close" -> 1500
      [] t.kind = "open" -> 3000

\* Timers fire in the order of their due times: timer i can fire when no
\* timer set before it has a delay that is no longer.
CanFire(i) ==
    /\ i \in 1..Len(timers)
    /\ \A j \in 1..(i - 1) : Delay(timers[j]) > Delay(timers[i])

RemoveAt(seq, i) == SubSeq(seq, 1, i - 1) \o SubSeq(seq, i + 1, Len(seq))
NoCall ==
    [op |-> "none", sckt |-> -1, len |-> 0, ret |-> -2, prior |-> "none",
     id |-> 0, first |-> FALSE, data |-> <<>>]

\* The state before any socket is created, or a table whose first slots
\* were opened earlier and are established.
StartSock ==
    /\ \E n \in {0, MAXSOCKETS - FreeSlots} :
          socks = [i \in 0..MAXSOCKETS |-> IF i < n THEN "true" ELSE "undefined"]
    /\ sockData = [i \in 0..MAXSOCKETS |-> <<>>]
    /\ busy = FALSE
    /\ dbg \in BOOLEAN
    /\ atq = <<>>
    /\ timers = <<>>
    /\ promptH = 0
    /\ lineH = 0
    /\ nSend = 0
    /\ writes = <<>>
    /\ await = 0
    /\ term = {}
    /\ budget = [create |-> 0, close |-> 0, deact |-> 0]
    /\ realloc = {}
    /\ last = NoCall

IdleSock ==
    /\ socks = [i \in 0..MAXSOCKETS |-> "undefined"]
    /\ busy = FALSE
    /\ dbg = FALSE
    /\ atq = <<>>
    /\ timers = <<>>
    /\ promptH = 0
    /\ lineH = 0
    /\ nSend = 0
    /\ writes = <<>>
    /\ await = 0
    /\ term = {}
    /\ budget = [create |-> 0, close |-> 0, deact |-> 0]
    /\ realloc = {}
    /\ last = NoCall

SockFrame == UNCHANGED <<dbg, realloc, recvVars, initVars, connVars, geoVars, mqttVars>>

\* openSocket(sckt, host, port, counter): the open command goes to the engine.
openSocket(q, sckt, counter) == Append(q, AtCommand("AT+QIOPEN", sckt, counter))

\* while (socks[sckt]!==undefined) sckt++ : socks[i] is undefined past the
\* last index ever written, MAXSOCKETS.
FirstFree ==
    CHOOSE i \in 0..(MAXSOCKETS + 1) :
        /\ i > MAXSOCKETS \/ socks[i] = "undefined"
        /\ \A j \in 0..(i - 1) : socks[j] # "undefined"

\* create(host, port), host defined.
Create(port) ==
    /\ budget.create < MaxCreates
    /\ LET free == FirstFree
           sckt == IF free >= MAXSOCKETS THEN free - 1 ELSE free
           q1   == IF free >= MAXSOCKETS
                   THEN Append(atq, AtCommand("AT+QICLOSE workaround", sckt, 0))
                   ELSE atq
       IN  /\ socks' = [socks EXCEPT ![sckt] = "Wait"]
           /\ sockData' = [sockData EXCEPT ![sckt] = <<>>]
           /\ IF port = 443
              THEN /\ timers' = Append(timers, [kind |-> "open", sckt |-> sckt, n |-> 0])
                   /\ atq' = q1
              ELSE /\ atq' = openSocket(q1, sckt, 0)
                   /\ UNCHANGED timers
           /\ last' = [NoCall EXCEPT !.op = "create", !.sckt = sckt, !.ret = sckt,
                                     !.prior = socks[sckt]]
           /\ realloc' = IF \E i \in 1..Len(timers) :
                                timers[i].kind = "close" /\ timers[i].sckt = sckt
                         THEN realloc \cup {sckt} ELSE realloc
    /\ budget' = [budget EXCEPT !.create = @ + 1]
    /\ UNCHANGED <<busy, promptH, lineH, nSend, writes, await, term>>
    /\ UNCHANGED <<dbg, recvVars, initVars, connVars, geoVars, mqttVars>>

\* create(undefined, port): the server socket.
CreateServer ==
    /\ budget.create < MaxCreates
    /\ socks' = [socks EXCEPT ![MAXSOCKETS] = "Wait"]
    /\ sockData' = [sockData EXCEPT ![MAXSOCKETS] = <<>>]
    /\ atq' = Append(atq, AtCommand("AT+CIPSERVER", MAXSOCKETS, 0))
    /\ last' = [NoCall EXCEPT !.op = "create server", !.sckt = MAXSOCKETS,
                              !.ret = MAXSOCKETS, !.prior = socks[MAXSOCKETS]]
    /\ budget' = [budget EXCEPT !.create = @ + 1]
    /\ UNCHANGED <<busy, timers, promptH, lineH, nSend, writes, await, term>>
    /\ SockFrame

\* closeSocket without the test of at.isBusy().
closeSocket_IgnoresEngine(socket, tm) ==
    IF socks[socket] # "undefined" THEN
        IF busy THEN
            /\ timers' = Append(tm, [kind |-> "close", sckt |-> socket, n |-> 0])
            /\ UNCHANGED atq
        ELSE
            /\ atq' = Append(atq, AtCommand("AT+QICLOSE", socket, 0))
            /\ timers' = tm
    ELSE /\ timers' = tm
         /\ UNCHANGED atq

\* closeSocket(socket), tm being the timers pending when it is entered.
closeSocket(socket, tm) ==
    IF socks[socket] # "undefined" THEN
        IF busy THEN
            /\ timers' = Append(tm, [kind |-> "close", sckt |-> socket, n |-> 0])
            /\ UNCHANGED atq
        ELSE IF isBusy THEN
            /\ timers' = Append(tm, [kind |-> "close", sckt |-> socket, n |-> 0])
            /\ UNCHANGED atq
        ELSE
            /\ atq' = Append(atq, AtCommand("AT+QICLOSE", socket, 0))
            /\ timers' = tm
    ELSE /\ timers' = tm
         /\ UNCHANGED atq

\* close(sckt)
Close(sckt) ==
    /\ budget.close < MaxCloses
    /\ closeSocket(sckt, timers)
    /\ last' = NoCall
    /\ budget' = [budget EXCEPT !.close = @ + 1]
    /\ UNCHANGED <<socks, sockData, busy, promptH, lineH, nSend, writes, await, term>>
    /\ SockFrame

\* A timer of closeSocket fires: closeSocket(socket) again.
CloseTimer(i) ==
    /\ CanFire(i) /\ timers[i].kind = "close"
    /\ closeSocket(timers[i].sckt, RemoveAt(timers, i))
    /\ last' = [NoCall EXCEPT !.op = "closeSocket", !.sckt = timers[i].sckt]
    /\ UNCHANGED <<socks, sockData, busy, promptH, lineH, nSend, writes, await,
                   term, budget>>
    /\ SockFrame

\* The timer of a delayed open (port 443) or of a repeated open fires.
OpenTimer(i) ==
    /\ CanFire(i) /\ timers[i].kind = "open"
    /\ atq' = openSocket(atq, timers[i].sckt, timers[i].n)
    /\ timers' = RemoveAt(timers, i)
    /\ last' = NoCall
    /\ UNCHANGED <<socks, sockData, busy, promptH, lineH, nSend, writes, await,
                   term, budget>>
    /\ SockFrame

\* The answers to AT+QIOPEN: OK, the result codes 0, 565, 566 and 563 for the
\* socket of the command, any other line, or the time-out.
OpenAnswers == {"OK", "0", "565", "566", "563", "other", "timeout"}

\* if (counter < 5): the open is repeated (src/UG96.js:155).
OpenRetryAllowed_OneMore(counter) == counter <= OpenRetryLimit

OpenRetryAllowed(counter) == counter < OpenRetryLimit

\* The handler of AT+QIOPEN (cb in openSocket).
OpenResult(d) ==
    /\ atq # <<>> /\ Head(atq).cmd = "AT+QIOPEN"
    /\ LET sckt == Head(atq).sckt
           counter == Head(atq).counter
       IN  IF d = "OK" THEN
                UNCHANGED <<socks, atq, timers>>
           ELSE IF d \in {"0", "563"} THEN
                /\ socks' = [socks EXCEPT ![sckt] = "true"]
                /\ atq' = Tail(atq)
                /\ UNCHANGED timers
           ELSE IF d = "565" THEN
                /\ socks' = [socks EXCEPT ![sckt] = "tobeclosed"]
                /\ atq' = Tail(atq)
                /\ UNCHANGED timers
           ELSE IF d = "566" THEN
                /\ IF OpenRetryAllowed(counter)
                   THEN /\ timers' = Append(timers, [kind |-> "open", sckt |-> sckt,
                                                     n |-> counter + 1])
                        /\ UNCHANGED socks
                   ELSE /\ socks' = [socks EXCEPT ![sckt] = "tobeclosed"]
                        /\ UNCHANGED timers
                /\ atq' = Tail(atq)
           ELSE /\ socks' = [socks EXCEPT ![sckt] = "tobeclosed"]
                /\ atq' = IF dbg
                          THEN <<AtCommand("AT+QIGETERROR", sckt, 0)>> \o Tail(atq)
                          ELSE Tail(atq)
                /\ UNCHANGED timers
    /\ last' = NoCall
    /\ UNCHANGED <<sockData, busy, promptH, lineH, nSend, writes, await, term, budget>>
    /\ SockFrame

\* The handler of AT+QIGETERROR only logs.
GetErrorResult ==
    /\ atq # <<>> /\ Head(atq).cmd = "AT+QIGETERROR"
    /\ atq' = Tail(atq)
    /\ last' = NoCall
    /\ UNCHANGED <<socks, sockData, busy, timers, promptH, lineH, nSend, writes,
                   await, term, budget>>
    /\ SockFrame

\* The handler of AT+QICLOSE in closeSocket: the state it gives the slot.
CloseOutcome_AlwaysFreed(d) == "undefined"

CloseOutcome(d) == IF d = "OK" THEN "undefined" ELSE "tobeclosed"

CloseResult(d) ==
    /\ atq # <<>> /\ Head(atq).cmd = "AT+QICLOSE"
    /\ socks' = [socks EXCEPT ![Head(atq).sckt] = CloseOutcome(d)]
    /\ atq' = Tail(atq)
    /\ last' = [NoCall EXCEPT !.op = "close result", !.sckt = Head(atq).sckt,
                              !.prior = d]
    /\ UNCHANGED <<sockData, busy, timers, promptH, lineH, nSend, writes, await,
                   term, budget>>
    /\ SockFrame

\* The handler of the AT+QICLOSE of create(): whatever the answer.
WorkaroundCloseResult ==
    /\ atq # <<>> /\ Head(atq).cmd = "AT+QICLOSE workaround"
    /\ socks' = [socks EXCEPT ![Head(atq).sckt] = "undefined"]
    /\ atq' = Tail(atq)
    /\ last' = NoCall
    /\ UNCHANGED <<sockData, busy, timers, promptH, lineH, nSend, writes, await,
                   term, budget>>
    /\ SockFrame

\* The handler of AT+CIPSERVER; on failure it throws after freeing the slot.
ServerResult(d) ==
    /\ atq # <<>> /\ Head(atq).cmd = "AT+CIPSERVER"
    /\ socks' = [socks EXCEPT ![Head(atq).sckt] =
                    IF d = "OK" THEN "true" ELSE "undefined"]
    /\ atq' = Tail(atq)
    /\ last' = NoCall
    /\ UNCHANGED <<sockData, busy, timers, promptH, lineH, nSend, writes, await,
                   term, budget>>
    /\ SockFrame

\* send(sckt, data): its return value; data.length when the send is accepted.
SendVerdict_NoSizeCheck(b, engineBusy, st, len) ==
    IF b \/ engineBusy \/ st = "Wait" THEN 0
    ELSE IF st = "tobeclosed" THEN -1
    ELSE IF st = "undefined" THEN -1
    ELSE len

SendVerdict_ClosingFirst(b, engineBusy, st, len) ==
    IF st = "tobeclosed" THEN -1
    ELSE IF b \/ engineBusy \/ st = "Wait" THEN 0
    ELSE IF st = "undefined" THEN -1
    ELSE IF len > MaxData THEN -1
    ELSE len

SendVerdict(b, engineBusy, st, len) ==
    IF b \/ engineBusy \/ st = "Wait" THEN 0
    ELSE IF st = "tobeclosed" THEN -1
    ELSE IF st = "undefined" THEN -1
    ELSE IF len > MaxData THEN -1
    ELSE len

SendTimer(kind, sckt, id) == [kind |-> kind, sckt |-> sckt, n |-> id]

\* send(sckt, data) with data.length = len, accepted at most `most` times.
SendUpTo(sckt, len, most) ==
    LET v == SendVerdict(busy, isBusy, socks[sckt], len)
        id == nSend + 1
    IN  /\ IF v = len THEN
                /\ nSend < most
                /\ busy' = TRUE
                /\ timers' = timers \o <<SendTimer("prompt", sckt, id),
                                         SendTimer("rsp", sckt, id)>>
                /\ promptH' = id
                /\ lineH' = id
                /\ writes' = Append(writes, <<"AT+QISEND", id>>)
                /\ nSend' = id
           ELSE UNCHANGED <<busy, timers, promptH, lineH, writes, nSend>>
        /\ last' = [NoCall EXCEPT !.op = "send", !.sckt = sckt, !.len = len,
                                  !.ret = v, !.id = IF v = len THEN id ELSE 0]
        /\ UNCHANGED <<socks, sockData, atq, await, term, budget>>
        /\ SockFrame

Send(sckt, len) == SendUpTo(sckt, len, MaxSends)

\* The modem's prompt '>' reaches the handler send() registered.
Prompt ==
    /\ promptH # 0
    /\ promptH' = 0
    /\ timers' = SelectSeq(timers, LAMBDA x : ~(x.kind = "prompt" /\ x.n = promptH))
    /\ writes' = Append(writes, <<"data", promptH>>)
    /\ await' = await + 1
    /\ last' = NoCall
    /\ UNCHANGED <<socks, sockData, busy, atq, lineH, nSend, term, budget>>
    /\ SockFrame

\* The line handlers of send(): SEND OK, SEND FAIL and ERROR do the same.
SendLine(what) ==
    /\ lineH # 0
    /\ lineH' = 0
    /\ timers' = SelectSeq(timers, LAMBDA x : ~(x.kind = "rsp" /\ x.n = lineH))
    /\ busy' = FALSE
    /\ await' = IF await > 0 THEN await - 1 ELSE 0
    /\ term' = term \cup {lineH}
    /\ last' = [NoCall EXCEPT !.op = what, !.id = lineH, !.first = lineH \notin term]
    /\ UNCHANGED <<socks, sockData, atq, promptH, nSend, writes, budget>>
    /\ SockFrame

\* The modem answers a payload it was given with SEND OK or SEND FAIL.
SendOk == await > 0 /\ SendLine("SEND OK")

SendFail == await > 0 /\ SendLine("SEND FAIL")

\* The modem answers ERROR, to the send command or to the payload.
SendError == SendLine("ERROR")

\* abortWaitingPrompt() without at.unregister('>').
abortWaitingPrompt_KeepsHandler(i) ==
    /\ CanFire(i) /\ timers[i].kind = "prompt"
    /\ busy' = FALSE
    /\ timers' = RemoveAt(timers, i)
    /\ term' = term \cup {timers[i].n}
    /\ last' = [NoCall EXCEPT !.op = "abortWaitingPrompt", !.id = timers[i].n,
                              !.first = timers[i].n \notin term]
    /\ UNCHANGED <<socks, sockData, atq, promptH, lineH, nSend, writes, await, budget>>
    /\ SockFrame

\* The 1 s timer of the prompt fires: abortWaitingPrompt().
abortWaitingPrompt(i) ==
    /\ CanFire(i) /\ timers[i].kind = "prompt"
    /\ busy' = FALSE
    /\ promptH' = 0
    /\ timers' = RemoveAt(timers, i)
    /\ term' = term \cup {timers[i].n}
    /\ last' = [NoCall EXCEPT !.op = "abortWaitingPrompt", !.id = timers[i].n,
                              !.first = timers[i].n \notin term]
    /\ UNCHANGED <<socks, sockData, atq, lineH, nSend, writes, await, budget>>
    /\ SockFrame

\* abortWaitingModemRsp() without busy = false.
abortWaitingModemRsp_KeepsBusy(i) ==
    /\ CanFire(i) /\ timers[i].kind = "rsp"
    /\ lineH' = 0
    /\ timers' = RemoveAt(timers, i)
    /\ term' = term \cup {timers[i].n}
    /\ last' = [NoCall EXCEPT !.op = "abortWaitingModemRsp", !.id = timers[i].n,
                              !.first = timers[i].n \notin term]
    /\ UNCHANGED <<socks, sockData, atq, busy, promptH, nSend, writes, await, budget>>
    /\ SockFrame

\* The 1 s timer of the modem's response fires: abortWaitingModemRsp().
abortWaitingModemRsp(i) ==
    /\ CanFire(i) /\ timers[i].kind = "rsp"
    /\ busy' = FALSE
    /\ lineH' = 0
    /\ timers' = RemoveAt(timers, i)
    /\ term' = term \cup {timers[i].n}
    /\ last' = [NoCall EXCEPT !.op = "abortWaitingModemRsp", !.id = timers[i].n,
                              !.first = timers[i].n \notin term]
    /\ UNCHANGED <<socks, sockData, atq, promptH, nSend, writes, await, budget>>
    /\ SockFrame

\* The most PDP deactivations the modem reports in the model.
MaxDeacts == 1

\* '+QIURC: "pdpdeact",1': pdpdeacthandler issues AT+QIDEACT=1.
PdpDeact ==
    /\ budget.deact < MaxDeacts
    /\ atq' = Append(atq, AtCommand("AT+QIDEACT", -1, 0))
    /\ budget' = [budget EXCEPT !.deact = @ + 1]
    /\ last' = NoCall
    /\ UNCHANGED <<socks, sockData, busy, timers, promptH, lineH, nSend, writes,
                   await, term>>
    /\ SockFrame

\* The slots the callback of AT+QIDEACT resets: for (i=0;i<MAXSOCKETS;i++).
DeactSlots == 0..(MAXSOCKETS - 1)

\* The callback of AT+QIDEACT, whatever the answer.
DeactResult(d) ==
    /\ atq # <<>> /\ Head(atq).cmd = "AT+QIDEACT"
    /\ socks' = [i \in 0..MAXSOCKETS |->
                    IF i \in DeactSlots THEN "undefined" ELSE socks[i]]
    /\ sockData' = [i \in 0..MAXSOCKETS |->
                    IF i \in DeactSlots THEN <<>> ELSE sockData[i]]
    /\ atq' = Tail(atq)
    /\ last' = [NoCall EXCEPT !.op = "deact result", !.prior = d]
    /\ UNCHANGED <<busy, timers, promptH, lineH, nSend, writes, await, term, budget>>
    /\ SockFrame

\* recv(sckt, maxLen): ret is -1 for the close request and 0 for a string,
\* text being the string and buf what the buffer of the socket holds after.
recv_SentinelFirst(engineBusy, st, buf, maxLen) ==
    IF engineBusy \/ st = "Wait" THEN [ret |-> 0, text |-> <<>>, buf |-> buf]
    ELSE IF st = "undefined" THEN [ret |-> -1, text |-> <<>>, buf |-> buf]
    ELSE IF st = "tobeclosed" THEN [ret |-> -1, text |-> <<>>, buf |-> buf]
    ELSE IF buf # <<>> THEN
        IF Len(buf) > maxLen
        THEN [ret |-> 0, text |-> substr(buf, 0, maxLen), buf |-> substrFrom(buf, maxLen)]
        ELSE [ret |-> 0, text |-> buf, buf |-> <<>>]
    ELSE [ret |-> 0, text |-> <<>>, buf |-> buf]

recv_KeepsLastByte(engineBusy, st, buf, maxLen) ==
    IF engineBusy \/ st = "Wait" THEN [ret |-> 0, text |-> <<>>, buf |-> buf]
    ELSE IF buf # <<>> THEN
        IF Len(buf) > maxLen
        THEN [ret |-> 0, text |-> substr(buf, 0, maxLen),
              buf |-> substrFrom(buf, maxLen - 1)]
        ELSE [ret |-> 0, text |-> buf, buf |-> <<>>]
    ELSE IF st = "undefined" THEN [ret |-> -1, text |-> <<>>, buf |-> buf]
    ELSE IF st = "tobeclosed" THEN [ret |-> -1, text |-> <<>>, buf |-> buf]
    ELSE [ret |-> 0, text |-> <<>>, buf |-> buf]

recv(engineBusy, st, buf, maxLen) ==
    IF engineBusy \/ st = "Wait" THEN [ret |-> 0, text |-> <<>>, buf |-> buf]
    ELSE IF buf # <<>> THEN
        IF Len(buf) > maxLen
        THEN [ret |-> 0, text |-> substr(buf, 0, maxLen), buf |-> substrFrom(buf, maxLen)]
        ELSE [ret |-> 0, text |-> buf, buf |-> <<>>]
    ELSE IF st = "undefined" THEN [ret |-> -1, text |-> <<>>, buf |-> buf]
    ELSE IF st = "tobeclosed" THEN [ret |-> -1, text |-> <<>>, buf |-> buf]
    ELSE [ret |-> 0, text |-> <<>>, buf |-> buf]

\* The maxLen arguments of recv.
RecvLens == {1, 2}

\* recv(sckt, maxLen)
Recv(sckt, maxLen) ==
    LET r == recv(isBusy, socks[sckt], sockData[sckt], maxLen)
    IN  /\ sockData' = [sockData EXCEPT ![sckt] = r.buf]
        /\ last' = [NoCall EXCEPT !.op = "recv", !.sckt = sckt, !.len = maxLen,
                                  !.ret = r.ret, !.data = r.text]
        /\ UNCHANGED <<socks, busy, atq, timers, promptH, lineH, nSend, writes,
                       await, term, budget>>
        /\ SockFrame

\* accept(sckt): the first i < MAXSOCKETS with sockData[i] && socks[i]===undefined,
\* or -1.
accept_Highest ==
    LET cand == {i \in 0..(MAXSOCKETS - 1) :
                    sockData[i] # <<>> /\ socks[i] = "undefined"}
    IN  IF cand = {} THEN -1 ELSE CHOOSE i \in cand : \A j \in cand : i >= j

accept ==
    LET cand == {i \in 0..(MAXSOCKETS - 1) :
                    sockData[i] # <<>> /\ socks[i] = "undefined"}
    IN  IF cand = {} THEN -1 ELSE CHOOSE i \in cand : \A j \in cand : i <= j

Accept ==
    LET i == accept
    IN  /\ socks' = IF i >= 0 THEN [socks EXCEPT ![i] = "true"] ELSE socks
        /\ last' = [NoCall EXCEPT !.op = "accept", !.sckt = MAXSOCKETS, !.ret = i]
        /\ UNCHANGED <<sockData, busy, atq, timers, promptH, lineH, nSend, writes,
                       await, term, budget>>
        /\ SockFrame

\* The most bytes a buffer holds in the model.
MaxBuffered == 1

\* '+QIURC: "recv",<id>,1\r\n' and its byte reach receiveHandler in one dispatch.
DataArrives(sckt) ==
    /\ Len(sockData[sckt]) < MaxBuffered
    /\ sockData' = receiveHandler(sockData,
                       RecvNotification(sckt, <<"d">>) \o <<"d">>).sockData
    /\ last' = NoCall
    /\ UNCHANGED <<socks, busy, atq, timers, promptH, lineH, nSend, writes,
                   await, term, budget>>
    /\ SockFrame

\* '+QIURC: "closed",<id>\r\n'
ClosedNotification(sid) ==
    <<"+", "Q", "I", "U", "R", "C", ":", " ", "\"", "c", "l", "o", "s", "e", "d",
      "\"", ",">> \o NumToStr(sid) \o CRLF

\* closehandler(line): the socket it closes, or -1 when it returns the line.
closehandler(ln) ==
    LET crlf == indexOf(ln, CRLF)
        colon == IF crlf < 0 THEN indexOf(ln, <<"\r">>) ELSE crlf
    IN  IF colon < 0 THEN -1
        ELSE ToInt32(split(substring(ln, 0, colon)), 2)

\* The modem reports that the peer closed socket sckt: closehandler.
Closed(sckt) ==
    /\ budget.close < MaxCloses
    /\ closeSocket(closehandler(ClosedNotification(sckt)), timers)
    /\ last' = NoCall
    /\ budget' = [budget EXCEPT !.close = @ + 1]
    /\ UNCHANGED <<socks, sockData, busy, promptH, lineH, nSend, writes, await, term>>
    /\ SockFrame

(***************************************************************************)
(* init(callback): the modem initialisation sequence.  The AT engine       *)
(* calls cb with each line the modem answers to the outstanding command,   *)
(* and with undefined ("timeout" here) when the command's time is up; cb   *)
(* returning itself keeps the command outstanding, cb returning nothing    *)
(* ends it.                                                                *)
(***************************************************************************)
\* The lines the modem answers with, and "timeout" for cb(undefined).
Responses ==
    {"OK", "ERROR", "timeout", "AT", "ATV1", "ATE0", "IIIIATE0", "atE0",
     "+CPIN: READY", "+QCCID:", "+CSQ: 99,99", "+CSQ:", "+COPS:"}

\* if (atSync <= 10): another probe is scheduled (src/UG96.js:627).
SyncLimit == 10
\* else if (attRetry < 4): the attach is retried (src/UG96.js:820).
AttachLimit == 4

Idle == [kind |-> "idle", cmd |-> "none"]
Cmd(c) == [kind |-> "cmd", cmd |-> c]
Timer(c, ms) == [kind |-> "timer", cmd |-> c, delay |-> ms]

\* The commands init issues from a timer: the probe, the attach, the forced
\* operator selection and the operator-list query.
TimedCommands == {"AT", "AT+CGATT=1", "AT+COPS=0", "AT+COPS?"}

\* What an answer to the outstanding command achieves: the probe, the SIM
\* check, the attach or the operator query answered OK, or a signal reading
\* other than 99,99.
Achieved(c, r) ==
    CASE c = "AT" /\ r = "OK" -> "sync"
      [] c = "AT+CPIN?" /\ r = "OK" -> "sim"
      [] c = "AT+CSQ" /\ r = "+CSQ:" -> "signal"
      [] c = "AT+CGATT=1" /\ r = "OK" -> "attach"
      [] c = "AT+COPS?" /\ r = "OK" -> "operator"
      [] OTHER -> "none"

\* The answer r to the outstanding command is noted.
Observe(r) ==
    /\ okLog' = LET a == Achieved(eng.cmd, r)
                IN  IF a = "none" THEN okLog
                    ELSE Append(SelectSeq(okLog, LAMBDA x : x # a), a)
    /\ csq' = IF eng.cmd = "AT+CSQ" /\ r \in {"+CSQ: 99,99", "+CSQ:"}
              THEN r ELSE csq

IdleInit ==
    /\ s = "AT_SYNCHRO"
    /\ atSync = 0
    /\ attRetry = 0
    /\ signal_quality_report = FALSE
    /\ flowcontrol = FALSE
    /\ ccid = "undefined"
    /\ eng = Idle
    /\ cbLog = <<>>
    /\ issued = [c \in TimedCommands |-> 0]
    /\ nAttachErr = 0
    /\ okLog = <<>>
    /\ csq = "none"

IdleConn ==
    /\ cs = 0
    /\ ceng = "none"
    /\ connCb = <<>>
    /\ nConnect = 0

NoGeo == [op |-> "none", kind |-> "none", starts |-> 0]

\* No MQTT client is connected.
IdleMqtt ==
    /\ partData = <<>>
    /\ mqIn = <<>>
    /\ mqOut = <<>>
    /\ mqSrc = <<>>

\* var longlat = ""; var geoPos = false; (src/UG96.js:108-110)
IdleGeo ==
    /\ geoPos = FALSE
    /\ longlat = <<>>
    /\ geoq = <<>>
    /\ geot = <<>>
    /\ geoLast = NoGeo

\* init() has been called: its locals are set and the first probe is
\* scheduled (src/UG96.js:600-603, 868).  initflowctrl() may have been
\* called before.
InitCalled ==
    /\ s = "AT_SYNCHRO"
    /\ atSync = 0
    /\ attRetry = 0
    /\ signal_quality_report = FALSE
    /\ flowcontrol \in BOOLEAN
    /\ ccid = "undefined"
    /\ eng = Timer("AT", 500)
    /\ cbLog = <<>>
    /\ issued = [c \in TimedCommands |-> 0]
    /\ nAttachErr = 0
    /\ okLog = <<>>
    /\ csq = "none"

\* A timer set by init or by cb fires and issues its command.
InitTimer ==
    /\ eng.kind = "timer"
    /\ eng' = Cmd(eng.cmd)
    /\ issued' = IF eng.cmd \in DOMAIN issued
                 THEN [issued EXCEPT ![eng.cmd] = @ + 1] ELSE issued
    /\ csq' = IF eng.cmd = "AT+CSQ" THEN "none" ELSE csq
    /\ UNCHANGED <<s, atSync, attRetry, signal_quality_report, flowcontrol,
                   ccid, cbLog, nAttachErr, okLog>>
    /\ UNCHANGED <<sockVars, sockData, recvVars, connVars, geoVars, mqttVars>>

InitFrame ==
    UNCHANGED <<flowcontrol, issued, sockVars, sockData, recvVars, connVars,
                geoVars, mqttVars>>

SyncRetryAllowed(n) == n <= SyncLimit

AtSynchro(r) ==
    /\ s = "AT_SYNCHRO" /\ eng.kind = "cmd"
    /\ IF r = "AT" THEN
            UNCHANGED <<s, atSync, eng, cbLog>>
       ELSE IF r = "OK" THEN
            /\ s' = "AT_RSP_FORMAT"
            /\ eng' = Cmd("ATV1")
            /\ UNCHANGED <<atSync, cbLog>>
       ELSE /\ s' = "AT_SYNCHRO"
            /\ atSync' = atSync + 1
            /\ IF SyncRetryAllowed(atSync + 1)
               THEN eng' = Timer("AT", 500) /\ UNCHANGED cbLog
               ELSE eng' = Idle /\ cbLog' = Append(cbLog, "Error in AT sync")
    /\ UNCHANGED <<attRetry, signal_quality_report, ccid, nAttachErr>>
    /\ Observe(r)
    /\ InitFrame

AtRspFormat(r) ==
    /\ s = "AT_RSP_FORMAT" /\ eng.kind = "cmd"
    /\ IF r = "OK" THEN
            /\ s' = "AT_ECHO_OFF"
            /\ eng' = Cmd("ATE0")
            /\ UNCHANGED cbLog
       ELSE IF r = "ATV1" THEN
            UNCHANGED <<s, eng, cbLog>>
       ELSE /\ cbLog' = Append(cbLog, IF r = "timeout" THEN "ATV1 time-out"
                                      ELSE "Error in ATV1")
            /\ eng' = Idle
            /\ UNCHANGED s
    /\ UNCHANGED <<atSync, attRetry, signal_quality_report, ccid, nAttachErr>>
    /\ Observe(r)
    /\ InitFrame

AtEchoOff(r) ==
    /\ s = "AT_ECHO_OFF" /\ eng.kind = "cmd"
    /\ IF r \in {"IIIIATE0", "ATE0"} THEN
            UNCHANGED <<s, eng, cbLog>>
       ELSE IF r = "OK" THEN
            /\ IF flowcontrol
               THEN s' = "AT_HW_FLOW_CONTROL" /\ eng' = Cmd("AT+IFC=2,2")
               ELSE s' = "AT_CPIN" /\ eng' = Cmd("AT+CPIN?")
            /\ UNCHANGED cbLog
       ELSE IF r \in {"atE0", "timeout"} THEN
            /\ s' = "AT_CPIN"
            /\ eng' = Cmd("AT+CPIN?")
            /\ UNCHANGED cbLog
       ELSE /\ cbLog' = Append(cbLog, "Error in ATE0")
            /\ eng' = Idle
            /\ UNCHANGED s
    /\ UNCHANGED <<atSync, attRetry, signal_quality_report, ccid, nAttachErr>>
    /\ Observe(r)
    /\ InitFrame

AtHwFlowControl(r) ==
    /\ s = "AT_HW_FLOW_CONTROL" /\ eng.kind = "cmd"
    /\ cbLog' = IF r = "OK" THEN cbLog
                ELSE Append(cbLog, "HW flow control establismnent failed")
    /\ s' = "AT_CPIN"
    /\ eng' = Cmd("AT+CPIN?")
    /\ UNCHANGED <<atSync, attRetry, signal_quality_report, ccid, nAttachErr>>
    /\ Observe(r)
    /\ InitFrame

AtCpin(r) ==
    /\ s = "AT_CPIN" /\ eng.kind = "cmd"
    /\ IF r = "+CPIN: READY" THEN
            UNCHANGED <<s, eng, cbLog>>
       ELSE IF r = "OK" THEN
            /\ s' = "AT_SHOW_SIM_ID"
            /\ eng' = Cmd("AT+QCCID")
            /\ UNCHANGED cbLog
       ELSE /\ cbLog' = Append(cbLog, IF r = "timeout" THEN "AT+CPIN time-out"
                                      ELSE "Error in CPIN")
            /\ eng' = Idle
            /\ UNCHANGED s
    /\ UNCHANGED <<atSync, attRetry, signal_quality_report, ccid, nAttachErr>>
    /\ Observe(r)
    /\ InitFrame

AtShowSimId(r) ==
    /\ s = "AT_SHOW_SIM_ID" /\ eng.kind = "cmd"
    /\ IF r = "+QCCID:" THEN
            /\ ccid' = "cached"
            /\ UNCHANGED <<s, eng, cbLog>>
       ELSE IF r = "OK" THEN
            /\ s' = "AT_QUERY_SIGNAL_QUALITY"
            /\ eng' = Cmd("AT+CSQ")
            /\ UNCHANGED <<ccid, cbLog>>
       ELSE /\ cbLog' = Append(cbLog, IF r = "timeout" THEN "AT+QCCID time-out"
                                      ELSE "Error in QCCID")
            /\ eng' = Idle
            /\ UNCHANGED <<s, ccid>>
    /\ UNCHANGED <<atSync, attRetry, signal_quality_report, nAttachErr>>
    /\ Observe(r)
    /\ InitFrame

SignalKnown_Always(r) == TRUE

\* r.substr(0,11)=="+CSQ: 99,99": the signal is not known (src/UG96.js:769).
SignalKnown(r) == r # "+CSQ: 99,99"

AtQuerySignalQuality(r) ==
    /\ s = "AT_QUERY_SIGNAL_QUALITY" /\ eng.kind = "cmd"
    /\ IF r \in {"+CSQ: 99,99", "+CSQ:"} THEN
            /\ signal_quality_report' = SignalKnown(r)
            /\ UNCHANGED <<s, eng, cbLog>>
       ELSE IF r = "OK" THEN
            /\ IF signal_quality_report
               THEN s' = "AT_PS_ATTACHMENT" /\ eng' = Timer("AT+CGATT=1", 5000)
               ELSE s' = s /\ eng' = Timer("AT+CSQ", 500)
            /\ UNCHANGED <<signal_quality_report, cbLog>>
       ELSE /\ cbLog' = Append(cbLog, IF r = "timeout" THEN "AT+CSQ time-out"
                                      ELSE "Error in QCCID")
            /\ eng' = Idle
            /\ UNCHANGED <<s, signal_quality_report>>
    /\ UNCHANGED <<atSync, attRetry, ccid, nAttachErr>>
    /\ Observe(r)
    /\ InitFrame

AttachRetryAllowed_OneMore(n) == n < AttachLimit + 1

AttachRetryAllowed(n) == n < AttachLimit

FirstFailure_UpToTwo(n) == n <= 2

\* if(1==attRetry): the automatic registration is tried (src/UG96.js:815).
FirstFailure(n) == n = 1

AttachDone_AnyLine(r) == r # "timeout"

\* if(r === 'OK'): the attachment succeeded (src/UG96.js:807).
AttachDone(r) == r = "OK"

AtPsAttachment(r) ==
    /\ s = "AT_PS_ATTACHMENT" /\ eng.kind = "cmd"
    /\ IF AttachDone(r) THEN
            /\ s' = "AT_CURRENT_OPERATOR"
            /\ eng' = Cmd("AT+COPS?")
            /\ UNCHANGED <<attRetry, cbLog, nAttachErr>>
       ELSE IF r # "timeout" THEN
            /\ attRetry' = attRetry + 1
            /\ nAttachErr' = nAttachErr + 1
            /\ IF FirstFailure(attRetry + 1) THEN
                    /\ s' = "AT_AUTOMATIC_OPERATOR_SELECTION"
                    /\ eng' = Timer("AT+COPS=0", 2000)
                    /\ UNCHANGED cbLog
               ELSE IF AttachRetryAllowed(attRetry + 1) THEN
                    /\ s' = "AT_PS_ATTACHMENT"
                    /\ eng' = Timer("AT+CGATT=1", 2000 * (attRetry + 1))
                    /\ UNCHANGED cbLog
               ELSE /\ cbLog' = Append(cbLog, "Unrecoverable Error, PS attachment failed")
                    /\ eng' = Idle
                    /\ UNCHANGED s
       ELSE /\ eng' = Idle
            /\ UNCHANGED <<s, attRetry, cbLog, nAttachErr>>
    /\ UNCHANGED <<atSync, signal_quality_report, ccid>>
    /\ Observe(r)
    /\ InitFrame

AtAutomaticOperatorSelection(r) ==
    /\ s = "AT_AUTOMATIC_OPERATOR_SELECTION" /\ eng.kind = "cmd"
    /\ s' = "AT_LIST_CURRENT_OPERATORS"
    /\ eng' = Timer("AT+COPS?", 5000)
    /\ UNCHANGED <<atSync, attRetry, signal_quality_report, ccid, cbLog, nAttachErr>>
    /\ Observe(r)
    /\ InitFrame

AtListCurrentOperators(r) ==
    /\ s = "AT_LIST_CURRENT_OPERATORS" /\ eng.kind = "cmd"
    /\ s' = "AT_PS_ATTACHMENT"
    /\ eng' = Timer("AT+CGATT=1", 30000)
    /\ UNCHANGED <<atSync, attRetry, signal_quality_report, ccid, cbLog, nAttachErr>>
    /\ Observe(r)
    /\ InitFrame

AtCurrentOperator(r) ==
    /\ s = "AT_CURRENT_OPERATOR" /\ eng.kind = "cmd"
    /\ IF r = "OK" THEN
            /\ cbLog' = Append(cbLog, "null")
            /\ eng' = Idle
       ELSE IF r = "+COPS:" THEN
            UNCHANGED <<eng, cbLog>>
       ELSE /\ cbLog' = Append(cbLog, IF r = "timeout" THEN "AT+COPS? time-out"
                                      ELSE "Error in COPS?")
            /\ eng' = Idle
    /\ UNCHANGED <<s, atSync, attRetry, signal_quality_report, ccid, nAttachErr>>
    /\ Observe(r)
    /\ InitFrame

(***************************************************************************)
(* connect(apn, username, password, callback): PDP context configuration   *)
(* (AT+QICSGP) and activation (AT+QIACT).                                  *)
(***************************************************************************)
\* connect() calls the driver makes in one run of the model.
MaxConnects == 2

\* connect() is called once init has reported success (as the sample code
\* of src/UG96.js:55-69 does).
Connect ==
    /\ eng = Idle /\ cbLog # <<>> /\ cbLog[Len(cbLog)] = "null"
    /\ ceng \in {"none", "done"}
    /\ nConnect < MaxConnects
    /\ nConnect' = nConnect + 1
    /\ cs' = 0
    /\ ceng' = "AT+QICSGP"
    /\ connCb' = <<>>
    /\ UNCHANGED <<initVars, sockVars, sockData, recvVars, geoVars, mqttVars>>

ConnFrame == UNCHANGED <<initVars, sockVars, sockData, recvVars, geoVars, mqttVars>>

ConnectConfigured(r) ==
    /\ ceng = "AT+QICSGP" /\ cs = 0
    /\ IF r = "OK" THEN
            /\ cs' = 1
            /\ ceng' = "AT+QIACT"
            /\ UNCHANGED connCb
       ELSE IF r # "timeout" THEN
            /\ connCb' = Append(connCb, "Error in 0")
            /\ ceng' = "done"
            /\ UNCHANGED cs
       ELSE /\ ceng' = "done"
            /\ UNCHANGED <<cs, connCb>>
    /\ UNCHANGED nConnect
    /\ ConnFrame

ConnectActivated(r) ==
    /\ ceng = "AT+QIACT" /\ cs = 1
    /\ connCb' = Append(connCb, IF r = "OK" THEN "null"
                                ELSE IF r # "timeout" THEN "Error in 1"
                                ELSE "null")
    /\ ceng' = "done"
    /\ UNCHANGED <<cs, nConnect>>
    /\ ConnFrame

NextInit ==
    \/ InitTimer
    \/ \E r \in Responses : AtSynchro(r)
    \/ \E r \in Responses : AtRspFormat(r)
    \/ \E r \in Responses : AtEchoOff(r)
    \/ \E r \in Responses : AtHwFlowControl(r)
    \/ \E r \in Responses : AtCpin(r)
    \/ \E r \in Responses : AtShowSimId(r)
    \/ \E r \in Responses : AtQuerySignalQuality(r)
    \/ \E r \in Responses : AtPsAttachment(r)
    \/ \E r \in Responses : AtAutomaticOperatorSelection(r)
    \/ \E r \in Responses : AtListCurrentOperators(r)
    \/ \E r \in Responses : AtCurrentOperator(r)
    \/ Connect
    \/ \E r \in Responses : ConnectConfigured(r)
    \/ \E r \in Responses : ConnectActivated(r)

StartInit ==
    /\ InitCalled /\ IdleConn /\ IdleGeo /\ IdleMqtt /\ IdleSock /\ IdleRecv
    /\ sockData = [i \in 0..MAXSOCKETS |-> <<>>]

SpecInit == StartInit /\ [][NextInit]_vars

StartRecv == InitRecv /\ IdleSock /\ IdleInit /\ IdleConn /\ IdleGeo /\ IdleMqtt

SpecRecv == StartRecv /\ [][NextRecv]_vars

StartCont == InitCont /\ IdleSock /\ IdleInit /\ IdleConn /\ IdleGeo /\ IdleMqtt

SpecCont == StartCont /\ [][NextRecv]_vars

\* The socket table: create(), close() and the commands and timers they
\* start.
Next ==
    \/ \E port \in Ports : Create(port)
    \/ CreateServer
    \/ \E sckt \in ApiSockets : Close(sckt)
    \/ \E i \in 1..Len(timers) : CloseTimer(i)
    \/ \E i \in 1..Len(timers) : OpenTimer(i)
    \/ \E d \in OpenAnswers : OpenResult(d)
    \/ GetErrorResult
    \/ \E d \in {"OK", "ERROR", "timeout"} : CloseResult(d)
    \/ WorkaroundCloseResult
    \/ \E d \in {"OK", "ERROR", "timeout"} : ServerResult(d)

Start == StartSock /\ IdleRecv /\ IdleInit /\ IdleConn /\ IdleGeo /\ IdleMqtt

Spec == Start /\ [][Next]_vars

\* Opening sockets: create() and the answers to the opens it starts.
StartOpen == StartSock /\ IdleRecv /\ IdleInit /\ IdleConn /\ IdleGeo /\ IdleMqtt

NextOpen ==
    \/ \E port \in Ports : Create(port)
    \/ \E i \in 1..Len(timers) : OpenTimer(i)
    \/ \E d \in OpenAnswers : OpenResult(d)
    \/ GetErrorResult
    \/ WorkaroundCloseResult

SpecOpen == StartOpen /\ [][NextOpen]_vars

\* The send exchange, on a table whose sockets 0 and MAXSOCKETS-1 are in any
\* state, an open being outstanding or waiting at the engine for each socket
\* that is connecting.
SockStates == {"undefined", "true", "Wait", "tobeclosed"}

StartSend ==
    /\ \E a \in SockStates, b \in SockStates :
          /\ socks = [i \in 0..MAXSOCKETS |->
                         IF i = 0 THEN a
                         ELSE IF i = MAXSOCKETS - 1 THEN b ELSE "undefined"]
          /\ atq = (IF a = "Wait" THEN openSocket(<<>>, 0, 0) ELSE <<>>) \o
                   (IF b = "Wait" THEN openSocket(<<>>, MAXSOCKETS - 1, 0) ELSE <<>>)
    /\ sockData = [i \in 0..MAXSOCKETS |-> <<>>]
    /\ busy = FALSE
    /\ dbg = FALSE
    /\ timers = <<>>
    /\ promptH = 0
    /\ lineH = 0
    /\ nSend = 0
    /\ writes = <<>>
    /\ await = 0
    /\ term = {}
    /\ budget = [create |-> 0, close |-> 0, deact |-> 0]
    /\ realloc = {}
    /\ last = NoCall
    /\ IdleRecv /\ IdleInit /\ IdleConn /\ IdleGeo /\ IdleMqtt

NextSend ==
    \/ \E sckt \in ApiSockets, len \in SendLens : Send(sckt, len)
    \/ Prompt
    \/ SendOk
    \/ SendFail
    \/ SendError
    \/ \E i \in 1..Len(timers) : abortWaitingPrompt(i)
    \/ \E i \in 1..Len(timers) : abortWaitingModemRsp(i)
    \/ \E sckt \in ApiSockets : Close(sckt)
    \/ \E i \in 1..Len(timers) : CloseTimer(i)
    \/ \E d \in {"OK", "ERROR", "timeout"} : CloseResult(d)
    \/ \E i \in 1..Len(timers) : OpenTimer(i)
    \/ \E d \in OpenAnswers : OpenResult(d)

SpecSend == StartSend /\ [][NextSend]_vars

\* One send() after another: the exchanges with the modem and the guard
\* timers of each.
MaxExchanges == 2

StartBusy == StartSend

NextBusy ==
    \/ \E sckt \in ApiSockets : SendUpTo(sckt, MaxData, MaxExchanges)
    \/ Prompt
    \/ SendOk
    \/ SendFail
    \/ SendError
    \/ \E i \in 1..Len(timers) : abortWaitingPrompt(i)
    \/ \E i \in 1..Len(timers) : abortWaitingModemRsp(i)

SpecBusy == StartBusy /\ [][NextBusy]_vars

\* A timer that is due fires.
SpecBusyLive ==
    /\ SpecBusy
    /\ WF_vars(\E i \in 1..Len(timers) : abortWaitingPrompt(i))
    /\ WF_vars(\E i \in 1..Len(timers) : abortWaitingModemRsp(i))

\* The buffers and their users: recv(), accept(), the receive notification
\* and create(), on a table whose sockets 0 and
\* MAXSOCKETS-1 are in any state with or without buffered bytes.
DataBuffers == {<<>>, <<"a", "b", "c">>}

StartData ==
    /\ \E a \in SockStates, b \in SockStates :
          /\ socks = [i \in 0..MAXSOCKETS |->
                         IF i = 0 THEN a
                         ELSE IF i = MAXSOCKETS - 1 THEN b ELSE "undefined"]
          /\ atq = (IF a = "Wait" THEN openSocket(<<>>, 0, 0) ELSE <<>>) \o
                   (IF b = "Wait" THEN openSocket(<<>>, MAXSOCKETS - 1, 0) ELSE <<>>)
    /\ \E x \in DataBuffers, y \in DataBuffers :
          sockData = [i \in 0..MAXSOCKETS |->
                         IF i = 0 THEN x
                         ELSE IF i = MAXSOCKETS - 1 THEN y ELSE <<>>]
    /\ busy = FALSE
    /\ dbg = FALSE
    /\ timers = <<>>
    /\ promptH = 0
    /\ lineH = 0
    /\ nSend = 0
    /\ writes = <<>>
    /\ await = 0
    /\ term = {}
    /\ budget = [create |-> 0, close |-> 0, deact |-> 0]
    /\ realloc = {}
    /\ last = NoCall
    /\ IdleRecv /\ IdleInit /\ IdleConn /\ IdleGeo /\ IdleMqtt

NextData ==
    \/ \E sckt \in ApiSockets, maxLen \in RecvLens : Recv(sckt, maxLen)
    \/ Accept
    \/ \E sckt \in ApiSockets : DataArrives(sckt)
    \/ Create(80)
    \/ \E d \in {"0", "565"} : OpenResult(d)

SpecData == StartData /\ [][NextData]_vars

\* Closing sockets that hold buffered bytes: close(), the closed
\* notification, the re-checks and the answer to the close command.
StartClose == StartData

NextClose ==
    \/ \E sckt \in ApiSockets, maxLen \in RecvLens : Recv(sckt, maxLen)
    \/ \E sckt \in ApiSockets : DataArrives(sckt)
    \/ \E sckt \in ApiSockets : Closed(sckt)
    \/ \E sckt \in ApiSockets : Close(sckt)
    \/ \E i \in 1..Len(timers) : CloseTimer(i)
    \/ \E d \in {"OK", "ERROR", "timeout"} : CloseResult(d)
    \/ \E d \in {"0", "565"} : OpenResult(d)

SpecClose == StartClose /\ [][NextClose]_vars

\* The reset of the table by a PDP deactivation, among create() and the
\* server socket.
StartReset == StartData

NextReset ==
    \/ PdpDeact
    \/ \E d \in {"OK", "ERROR", "timeout"} : DeactResult(d)
    \/ CreateServer
    \/ \E d \in {"OK", "ERROR"} : ServerResult(d)
    \/ Create(80)
    \/ \E d \in {"0", "565"} : OpenResult(d)

SpecReset == StartReset /\ [][NextReset]_vars

\* A deferred close and what happens to its slot before the re-check: the
\* table is reset and the slot is created again.
StartRetry == StartSend

NextRetry ==
    \/ \E sckt \in ApiSockets : Close(sckt)
    \/ \E i \in 1..Len(timers) : CloseTimer(i)
    \/ \E d \in {"OK", "ERROR"} : CloseResult(d)
    \/ PdpDeact
    \/ \E d \in {"OK", "timeout"} : DeactResult(d)
    \/ \E port \in Ports : Create(port)
    \/ \E i \in 1..Len(timers) : OpenTimer(i)
    \/ \E d \in {"0", "565"} : OpenResult(d)

SpecRetry == StartRetry /\ [][NextRetry]_vars

(***************************************************************************)
(* Geolocalisation: geoLocStart, geoLocStop and the callback cb of the     *)
(* location query AT+QCELLLOC=1 (src/UG96.js:981-1019).                    *)
(***************************************************************************)
\* Calls of geoLocStart() in one run of the model.
MaxStarts == 2
\* The periods geoLocStart is called with, in ms.
Periods == {10000, 60000}

\* r.substr(0,10)=="+QCELLLOC:"
QCELLLOC == <<"+", "Q", "C", "E", "L", "L", "L", "O", "C", ":">>
\* The positions the network reports.
Positions == {<<"8", ".", "5", ",", "4", "7">>, <<"-", "1", ",", "5", "2">>}
\* What the engine hands to cb: undefined on a timeout, else a line.
GeoTimeout == [undef |-> TRUE, text |-> <<>>]
GeoLine(t) == [undef |-> FALSE, text |-> t]
GeoFixes == {GeoLine(QCELLLOC \o <<" ">> \o pos) : pos \in Positions}
GeoOk == GeoLine(<<"O", "K">>)
GeoError == GeoLine(<<"E", "R", "R", "O", "R">>)
GeoTerminals == {GeoTimeout, GeoOk, GeoError}
GeoAnswers == GeoTerminals \cup GeoFixes

GeoKind(r) ==
    IF r.undef THEN "timeout"
    ELSE IF r = GeoOk THEN "OK"
    ELSE IF r \in GeoFixes THEN "fix" ELSE "error"

NewTrigger_Always(running) == TRUE

\* if (geoPos): a new trigger is set (src/UG96.js:1005).
NewTrigger(running) == running

\* cb(r): the cache after the call, whether cb goes on waiting for a line
\* (return cb) and whether the next query is scheduled.
geoCb(r, cached, running) ==
    IF r.undef
    THEN [longlat |-> <<>>, wait |-> FALSE, trigger |-> NewTrigger(running)]
    ELSE IF r.text = <<"O", "K">>
    THEN [longlat |-> cached, wait |-> FALSE, trigger |-> NewTrigger(running)]
    ELSE IF r.text # <<>> /\ substr(r.text, 0, 10) = QCELLLOC
    THEN [longlat |-> substring(r.text, 1 + indexOf(r.text, <<" ">>), Len(r.text)),
          wait |-> TRUE, trigger |-> FALSE]
    ELSE [longlat |-> <<>>, wait |-> FALSE, trigger |-> NewTrigger(running)]

GeoFrame == UNCHANGED <<sockVars, sockData, recvVars, initVars, connVars, mqttVars>>

\* geoLocStart(period): the service runs and the first query is issued.
GeoLocStart(period) ==
    /\ geoLast.starts < MaxStarts
    /\ geoPos' = TRUE
    /\ geoq' = Append(geoq, period)
    /\ geoLast' = [op |-> "start", kind |-> "none", starts |-> geoLast.starts + 1]
    /\ UNCHANGED <<longlat, geot>>
    /\ GeoFrame

\* geoLocStop()
GeoLocStop ==
    /\ geoPos' = FALSE
    /\ longlat' = <<>>
    /\ geoLast' = [geoLast EXCEPT !.op = "stop", !.kind = "none"]
    /\ UNCHANGED <<geoq, geot>>
    /\ GeoFrame

\* The engine calls cb of the outstanding query with a line or on a timeout.
GeoAnswer(r) ==
    /\ geoq # <<>>
    /\ LET c == geoCb(r, longlat, geoPos) IN
          /\ longlat' = c.longlat
          /\ geoq' = IF c.wait THEN geoq ELSE Tail(geoq)
          /\ geot' = IF c.trigger THEN Append(geot, Head(geoq)) ELSE geot
    /\ geoLast' = [geoLast EXCEPT !.op = "answer", !.kind = GeoKind(r)]
    /\ UNCHANGED geoPos
    /\ GeoFrame

\* A re-trigger timer fires and issues the next query; timers fire in the
\* order of their due times.
GeoTimer(i) ==
    /\ i \in 1..Len(geot)
    /\ \A j \in 1..(i - 1) : geot[j] > geot[i]
    /\ geot' = RemoveAt(geot, i)
    /\ geoq' = Append(geoq, geot[i])
    /\ geoLast' = [geoLast EXCEPT !.op = "timer", !.kind = "none"]
    /\ UNCHANGED <<geoPos, longlat>>
    /\ GeoFrame

StartGeo ==
    /\ sockData = [i \in 0..MAXSOCKETS |-> <<>>]
    /\ IdleSock /\ IdleRecv /\ IdleInit /\ IdleConn /\ IdleGeo /\ IdleMqtt

NextGeo ==
    \/ \E period \in Periods : GeoLocStart(period)
    \/ GeoLocStop
    \/ \E r \in GeoAnswers : GeoAnswer(r)
    \/ \E i \in 1..Len(geot) : GeoTimer(i)

SpecGeo == StartGeo /\ [][NextGeo]_vars

\* A timer that is due fires, and the engine ends every command with a
\* final answer or a timeout.
SpecGeoLive ==
    /\ SpecGeo
    /\ WF_vars(\E i \in 1..Len(geot) : GeoTimer(i))
    /\ WF_vars(\E r \in GeoTerminals : GeoAnswer(r))

(***************************************************************************)
(* The MQTT client's handler of the socket's 'data' event                  *)
(* (src/MQTT.js:213-242).  A string is the sequence of its character       *)
(* codes.                                                                  *)
(***************************************************************************)
\* The loop of mqttPacketLengthDec, before the byte at index bytes is read.
\* charCodeAt beyond the end gives NaN, which & turns into 0.
RECURSIVE LengthDecLoop(_, _, _, _)
LengthDecLoop(length, bytes, mul, decL) ==
    LET lb == IF bytes < Len(length) THEN length[bytes + 1] ELSE 0
        d  == decL + mul * (lb % 128)
    IN  IF mul * 128 > 2097152 THEN [decLen |-> 0, lenBy |-> 0, bad |-> TRUE]
        ELSE IF (lb \div 128) % 2 = 0 \/ bytes + 1 >= 5
        THEN [decLen |-> d, lenBy |-> bytes + 1, bad |-> FALSE]
        ELSE LengthDecLoop(length, bytes + 1, mul * 128, d)

\* mqttPacketLengthDec(length); bad stands for the return value 0.
mqttPacketLengthDec(length) == LengthDecLoop(length, 0, 1, 0)

\* parsePublish(data): the message of the PUBLISH packet, as a one-element
\* sequence, or the empty sequence for undefined.
parsePublish(data) ==
    IF Len(data) >= 3
    THEN LET var_len == data[2] * 256 + data[3]
         IN  <<substr(data, 3 + var_len, Len(data) - var_len)>>
    ELSE <<>>

\* TYPE.PUBLISH
PUBLISH == 3

\* client.on('data', function (data) {...}) with mqo.partData = part: the
\* bytes it keeps and the messages it emits.  The bytes after the packet are
\* emitted as a 'data' event, which is handled before the packet itself.
\* When the length decodes to 0 (bad), pLen is NaN: no comparison holds and
\* the substrings are empty.
RECURSIVE onData(_, _)
onData(part, chunk) ==
    LET data == part \o chunk
        type == data[1] \div 16
        dLen == mqttPacketLengthDec(substr(data, 1, 5))
        pLen == dLen.decLen + dLen.lenBy + 1
    IN  IF dLen.bad
        THEN [partData |-> <<>>, out |-> <<>>]
        ELSE IF Len(data) < pLen
        THEN [partData |-> data, out |-> <<>>]
        ELSE LET pData == substr(data, dLen.lenBy + 1, pLen)
                 rest  == IF Len(data) > pLen
                          THEN onData(<<>>, substrFrom(data, pLen))
                          ELSE [partData |-> <<>>, out |-> <<>>]
             IN  [partData |-> rest.partData,
                  out |-> rest.out \o
                          (IF type = PUBLISH
                           THEN parsePublish(<<data[1]>> \o pData) ELSE <<>>)]

\* The messages the broker publishes, on the topic "t".
MqttMessages == {<<109>>, <<109, 110>>}
\* A PUBLISH packet of QoS 0: its remaining length in one byte, or in two
\* (a continuation byte and a zero byte).
Publish(msg, long) ==
    (IF long THEN <<48, 128 + 3 + Len(msg), 0>> ELSE <<48, 3 + Len(msg)>>)
        \o <<0, 1, 116>> \o msg
PingResp == <<208, 0>>

\* The most places the socket cuts what the broker sends at.
MaxCuts == 2

\* The chunks of bytes cut after each of the byte counts in cuts.
MqttPieces(bytes, cuts) ==
    LET at == <<0>> \o Ascending(cuts) \o <<Len(bytes)>>
    IN  [j \in 1..(Len(at) - 1) |-> SubSeq(bytes, at[j] + 1, at[j + 1])]

\* The socket delivers the next chunk to the handler.
MqttData ==
    /\ mqIn # <<>>
    /\ LET r == onData(partData, Head(mqIn))
       IN  /\ partData' = r.partData
           /\ mqOut' = mqOut \o r.out
    /\ mqIn' = Tail(mqIn)
    /\ UNCHANGED mqSrc
    /\ UNCHANGED <<sockVars, sockData, recvVars, initVars, connVars, geoVars>>

\* The broker has sent a PUBLISH and then a PINGRESP or another PUBLISH.
StartMqtt ==
    /\ \E m1 \in MqttMessages, m2 \in MqttMessages, long \in BOOLEAN :
         \E second \in {PingResp, Publish(m2, FALSE)} :
           LET bytes == Publish(m1, long) \o second IN
           \E cuts \in {c \in SUBSET (1..(Len(bytes) - 1)) : Cardinality(c) <= MaxCuts} :
             /\ mqIn = MqttPieces(bytes, cuts)
             /\ mqSrc = <<m1>> \o (IF second = PingResp THEN <<>> ELSE <<m2>>)
    /\ partData = <<>>
    /\ mqOut = <<>>
    /\ sockData = [i \in 0..MAXSOCKETS |-> <<>>]
    /\ IdleSock /\ IdleRecv /\ IdleInit /\ IdleConn /\ IdleGeo

SpecMqtt == StartMqtt /\ [][MqttData]_vars

\* C1: the id create(host, port) returns is an id whose state just before
\* the call was Unused, also when every client slot is allocated.
C1_CreateReturnsUnused ==
    last.op = "create" => last.prior = "undefined"

\* What send() looks at before it accepts.
SendRefused0(sckt) == busy \/ isBusy \/ socks[sckt] = "Wait"
SendStep == last'.op = "send"
SendUntouched ==
    UNCHANGED <<busy, promptH, lineH, timers, writes, atq, socks, sockData,
                nSend, await>>

\* C8 as claimed: send() with more than 1460 bytes returns -1 and writes
\* nothing to the engine, in every state of the driver.
C8_OversizeAlwaysMinusOne ==
    [][(SendStep /\ last'.len > 1460) =>
          (last'.ret = -1 /\ writes' = writes)]_vars

\* C8 as amended: send() with more than 1460 bytes writes nothing to the
\* engine and changes nothing; it returns 0 when the busy flag is set, the
\* engine is busy or the slot is Connecting, and -1 otherwise.
C8_OversizeRefused ==
    [][(SendStep /\ last'.len > 1460) =>
          /\ SendUntouched
          /\ last'.ret = IF SendRefused0(last'.sckt) THEN 0 ELSE -1]_vars

\* C8's case: an oversize send on an established slot, with neither the busy
\* flag set nor the engine busy, has been refused with -1.
C8_Witness ==
    /\ last.op = "send" /\ last.len > 1460 /\ last.ret = -1
    /\ socks[last.sckt] = "true" /\ ~busy /\ ~isBusy
    /\ writes = <<>>

\* C9: send() returns 0 when the busy flag is set, the engine is busy or the
\* slot is Connecting; otherwise -1 when the slot is Closing or Unused; and
\* a refused send changes nothing: the busy flag, the handlers, the timers
\* and what was written to the engine stay as they were.
C9_RefusedSend ==
    [][SendStep =>
          /\ SendRefused0(last'.sckt) => last'.ret = 0
          /\ (~SendRefused0(last'.sckt)
                /\ socks[last'.sckt] \in {"tobeclosed", "undefined"})
                  => last'.ret = -1
          /\ (\/ SendRefused0(last'.sckt)
              \/ socks[last'.sckt] \in {"tobeclosed", "undefined"}
              \/ last'.len > 1460) => SendUntouched]_vars

\* C9's case: while a send is in progress a send on a Closing slot has been
\* refused with 0.
C9_Witness ==
    /\ last.op = "send" /\ last.len <= 1460 /\ last.ret = 0
    /\ socks[last.sckt] = "tobeclosed"
    /\ busy /\ promptH # 0

\* C10: when the first terminal condition of an accepted send has fired (SEND
\* OK, SEND FAIL, ERROR or a guard time-out), the busy flag is false and
\* neither a handler nor a timer of that send remains.
TerminalConditions ==
    {"SEND OK", "SEND FAIL", "ERROR", "abortWaitingPrompt", "abortWaitingModemRsp"}
C10_SendCleansUp ==
    (last.op \in TerminalConditions /\ last.first) =>
        /\ ~busy
        /\ promptH # last.id /\ lineH # last.id
        /\ \A i \in 1..Len(timers) :
              ~(timers[i].kind \in {"prompt", "rsp"} /\ timers[i].n = last.id)

\* The callback invocations of init, and those reporting the attach failure.
Fatal == "Unrecoverable Error, PS attachment failed"
Count(log, x) == Len(SelectSeq(log, LAMBDA y : y = x))

\* C4: when every sync probe fails, init's callback gets the error after
\* exactly 10 probes, and no 11th probe is issued.
C4_TenProbes ==
    /\ issued["AT"] <= 10
    /\ Count(cbLog, "Error in AT sync") > 0 => issued["AT"] = 10

C6_CallbackExactlyOnce ==
    /\ Len(cbLog) <= 1
    /\ eng = Idle => Len(cbLog) = 1

\* C7: whatever the outcomes of the two phases of connect(), cb is invoked
\* exactly once: with null when the activation succeeds or times out, with
\* an error when a phase gets an explicit error.
C7_ConnectCallbackOnce ==
    ceng = "done" => /\ Len(connCb) = 1
                     /\ connCb[1] \in {"null", "Error in 0", "Error in 1"}

\* The buffers before the notification, and the notification with everything
\* after it as one dispatch.
RxBefore == [i \in 0..MAXSOCKETS |-> rx.pre]
RxWhole == RecvNotification(rx.sid, rx.payload) \o rx.payload \o rx.tail

\* C2: reassembly equivalence.  Once a notification split after k payload
\* bytes (header + k bytes to receiveHandler, then the returned token + the
\* other bytes to receiveHandler2) is delivered, the socket buffers equal the
\* buffers receiveHandler leaves when it gets the header and all the payload
\* in one dispatch.
C2_ReassemblyEquivalence ==
    wire = <<>> => sockData = receiveHandler(RxBefore, RxWhole).sockData

\* C2's case: a payload split strictly inside, delivered in two dispatches
\* to a socket with a two-digit id that already held data.
C2_Witness ==
    /\ wire = <<>>
    /\ rxsteps = <<"receiveHandler", "receiveHandler2">>
    /\ 0 < rx.k /\ rx.k < Len(rx.payload)
    /\ rx.sid = MAXSOCKETS - 1 /\ rx.pre # <<>>
    /\ sockData[rx.sid] = rx.pre \o rx.payload

\* C3: when one dispatch holds a complete notification followed by further
\* bytes, receiveHandler appends exactly the payload to the addressed
\* socket's buffer and returns exactly the bytes that follow the payload.
C3_ReturnsTrailingBytes ==
    (rx.k = Len(rx.payload) /\ rxsteps = <<"receiveHandler">>) =>
        /\ sockData = [RxBefore EXCEPT ![rx.sid] = @ \o rx.payload]
        /\ line = rx.tail

\* C11: an accepted send returns data.length, sets the busy flag and writes
\* the send command; the payload of a send is written at most once, after
\* its command, and only by the prompt handler of that send while its 1 s
\* prompt timer is still pending: once that timer has fired without the
\* prompt, the payload is never written.
PromptPending(id) ==
    \E i \in 1..Len(timers) : timers[i].kind = "prompt" /\ timers[i].n = id
C11_PayloadAfterPrompt ==
    [][/\ (SendStep /\ last'.id # 0) =>
            /\ last'.ret = last'.len
            /\ busy'
            /\ writes' = Append(writes, <<"AT+QISEND", last'.id>>)
       /\ \A id \in 1..nSend' :
            /\ Count(writes', <<"data", id>>) <= 1
            /\ (Count(writes, <<"data", id>>) = 0
                  /\ Count(writes', <<"data", id>>) = 1) =>
                    /\ promptH = id
                    /\ PromptPending(id)
                    /\ Count(writes, <<"AT+QISEND", id>>) = 1
            /\ (last'.op = "abortWaitingPrompt" /\ last'.id = id) =>
                    promptH' # id]_vars

\* C11's case: the prompt of an accepted send was observed and its payload
\* written after the command.
C11_Witness ==
    /\ nSend >= 1
    /\ writes = <<<<"AT+QISEND", 1>>, <<"data", 1>>>>
    /\ promptH = 0 /\ ~PromptPending(1)

\* C12: recv(id, n), n >= 1, on a slot whose buffer B is not empty, the
\* engine being idle and the slot not Connecting, returns the first
\* min(n, |B|) bytes of B and leaves the rest of B in the buffer, in order;
\* no other buffer changes.
RecvStep == last'.op = "recv"
C12_RecvReturnsPrefix ==
    [][(/\ RecvStep
        /\ sockData[last'.sckt] # <<>>
        /\ ~isBusy
        /\ socks[last'.sckt] # "Wait") =>
          LET B == sockData[last'.sckt]
              k == Min(last'.len, Len(B))
          IN  /\ last'.ret = 0
              /\ last'.data = SubSeq(B, 1, k)
              /\ sockData'[last'.sckt] = SubSeq(B, k + 1, Len(B))
              /\ last'.data \o sockData'[last'.sckt] = B
              /\ \A i \in 0..MAXSOCKETS :
                    i # last'.sckt => sockData'[i] = sockData[i]]_vars

\* C12's case: recv(id, 2) on a buffer of three bytes returned the first two
\* and left the third.
C12_Witness ==
    /\ last.op = "recv" /\ last.len = 2
    /\ last.data = <<"a", "b">>
    /\ sockData[last.sckt] = <<"c">>

\* C13: recv returns the empty string and leaves the buffers as they are
\* when the engine is busy or the slot is Connecting; it returns -1 only
\* when the buffer of the slot is empty and the slot is Unused or Closing.
C13_RecvEmptyOrSentinel ==
    [][RecvStep =>
          /\ (isBusy \/ socks[last'.sckt] = "Wait") =>
                /\ last'.ret = 0 /\ last'.data = <<>>
                /\ sockData' = sockData
          /\ last'.ret = -1 =>
                /\ sockData[last'.sckt] = <<>>
                /\ socks[last'.sckt] \in {"undefined", "tobeclosed"}
                /\ sockData' = sockData]_vars

\* C13's case: recv on a Closing slot whose buffer is empty, the engine
\* being idle, has returned -1.
C13_Witness ==
    /\ last.op = "recv" /\ last.ret = -1
    /\ socks[last.sckt] = "tobeclosed"
    /\ sockData[last.sckt] = <<>>
    /\ ~isBusy

\* C17: a slot goes to Unused through the answer to a close command only
\* when its inbound buffer is empty.
C17_DrainedBeforeClose ==
    [][\A i \in 0..MAXSOCKETS :
          (/\ socks[i] # "undefined" /\ socks'[i] = "undefined"
           /\ atq # <<>> /\ Head(atq).cmd = "AT+QICLOSE" /\ Head(atq).sckt = i)
            => sockData[i] = <<>>]_vars

\* C18: a buffer changes only by a receive notification appending to it or
\* by recv() taking a prefix of it off; create, close, accept and send leave
\* every buffer as it is.
IsPrefixOf(p, str) == Len(p) <= Len(str) /\ SubSeq(str, 1, Len(p)) = p
IsSuffixOf(q, str) ==
    Len(q) <= Len(str) /\ SubSeq(str, Len(str) - Len(q) + 1, Len(str)) = q
C18_BufferOwners ==
    [][\A i \in 0..MAXSOCKETS :
          sockData'[i] # sockData[i] =>
            \/ last'.op = "none" /\ IsPrefixOf(sockData[i], sockData'[i])
            \/ /\ last'.op = "recv" /\ last'.sckt = i
               /\ IsSuffixOf(sockData'[i], sockData[i])]_vars

\* C20: accept returns the lowest i < MAXSOCKETS whose buffer is not empty
\* and whose state is Unused, and marks it Established; with no such slot it
\* returns -1 and changes nothing.
C20_AcceptLowest ==
    [][last'.op = "accept" =>
          LET cand == {i \in 0..(MAXSOCKETS - 1) :
                          sockData[i] # <<>> /\ socks[i] = "undefined"}
          IN  /\ sockData' = sockData
              /\ IF cand = {}
                 THEN last'.ret = -1 /\ socks' = socks
                 ELSE /\ last'.ret \in cand
                      /\ \A j \in cand : last'.ret <= j
                      /\ socks' = [socks EXCEPT ![last'.ret] = "true"]]_vars

\* C20's case: with two slots Unused and holding bytes, accept has returned
\* the lower one and made it Established.
C20_Witness ==
    /\ last.op = "accept" /\ last.ret = 0
    /\ socks[0] = "true" /\ sockData[0] # <<>>
    /\ socks[MAXSOCKETS - 1] = "undefined" /\ sockData[MAXSOCKETS - 1] # <<>>

\* C14: close(id) on an allocated slot while the send-busy flag is set or
\* the engine is busy issues no command and arms a re-check 1.5 s later; a
\* re-check does the same while either is set, and issues the close command
\* for the slot once both are idle; the answer OK makes the slot Unused.
CloseTimerFor(sckt) == [kind |-> "close", sckt |-> sckt, n |-> 0]
C14_DeferredClose ==
    [][/\ \A sckt \in ApiSockets :
            (Close(sckt) /\ socks[sckt] # "undefined" /\ (busy \/ isBusy)) =>
                /\ atq' = atq
                /\ timers' = Append(timers, CloseTimerFor(sckt))
                /\ Delay(CloseTimerFor(sckt)) = 1500
       /\ (last'.op = "closeSocket" /\ socks[last'.sckt] # "undefined") =>
            IF busy \/ isBusy
            THEN /\ atq' = atq
                 /\ Len(timers') = Len(timers)
                 /\ timers'[Len(timers')] = CloseTimerFor(last'.sckt)
            ELSE /\ atq' = <<AtCommand("AT+QICLOSE", last'.sckt, 0)>>
                 /\ Len(timers') = Len(timers) - 1
       /\ (last'.op = "close result" /\ last'.prior = "OK") =>
            socks'[last'.sckt] = "undefined"]_vars

\* C14's case: a re-check of a deferred close has found the send path and
\* the engine idle and issued the close command.
C14_Witness ==
    /\ last.op = "closeSocket"
    /\ budget.close >= 1
    /\ ~busy
    /\ atq = <<AtCommand("AT+QICLOSE", last.sckt, 0)>>

\* C15: a step that gives the engine a close command (AT+QICLOSE) starts in
\* a state where neither the send-busy flag nor the engine's busy indicator
\* is set.
CloseCommands(q) ==
    Len(SelectSeq(q, LAMBDA x : x.cmd \in {"AT+QICLOSE", "AT+QICLOSE workaround"}))
C15_CloseOnlyWhenIdle ==
    [][CloseCommands(atq') > CloseCommands(atq) => (~busy /\ ~isBusy)]_vars

\* C16: when the close command of close(id) completes the slot is Unused for
\* the answer OK and Closing for any other answer or the time-out, and no
\* other slot changes; close on a slot that is Unused issues no command and
\* changes nothing.
C16_CloseOutcome ==
    [][/\ last'.op = "close result" =>
            /\ atq # <<>> /\ Head(atq).cmd = "AT+QICLOSE"
            /\ last'.sckt = Head(atq).sckt
            /\ socks'[last'.sckt] =
                  IF last'.prior = "OK" THEN "undefined" ELSE "tobeclosed"
            /\ \A i \in 0..MAXSOCKETS : i # last'.sckt => socks'[i] = socks[i]
            /\ atq' = Tail(atq)
       /\ \A sckt \in ApiSockets :
            (Close(sckt) /\ socks[sckt] = "undefined") =>
                UNCHANGED <<socks, sockData, atq, timers, busy>>]_vars

\* C16's case: the close command of an allocated slot has timed out or
\* been refused, and the slot is Closing.
C16_Witness ==
    /\ last.op = "close result" /\ last.prior # "OK"
    /\ socks[last.sckt] = "tobeclosed"

\* C19: the answer to an open decides the slot: result 0 and 563 (identity
\* in use) make it Established; 565 (DNS), any other answer and the time-out
\* make it Closing; on 566 (connect failure) the open is issued again 3 s
\* later, the slot staying as it is, for the first 5 failures, and the
\* failure of the 5th repeat makes the slot Closing.
OpenTimerFor(sckt, n) == [kind |-> "open", sckt |-> sckt, n |-> n]
C19_OpenOutcome ==
    [][\A d \in OpenAnswers :
          OpenResult(d) =>
            LET k == Head(atq).sckt
                n == Head(atq).counter
            IN  /\ d = "OK" => socks' = socks /\ atq' = atq
                /\ d \in {"0", "563"} => socks'[k] = "true"
                /\ d \in {"565", "other", "timeout"} => socks'[k] = "tobeclosed"
                /\ d = "566" =>
                     IF n < 5
                     THEN /\ socks' = socks
                          /\ timers' = Append(timers, OpenTimerFor(k, n + 1))
                          /\ Delay(OpenTimerFor(k, n + 1)) = 3000
                     ELSE /\ n = 5
                          /\ socks'[k] = "tobeclosed"
                          /\ timers' = timers
                /\ \A i \in 0..MAXSOCKETS : i # k => socks'[i] = socks[i]]_vars

\* C19's case: the 5th repeat of an open is outstanding for a Connecting
\* slot.
C19_Witness ==
    /\ atq # <<>>
    /\ Head(atq).cmd = "AT+QIOPEN" /\ Head(atq).counter = 5
    /\ socks[Head(atq).sckt] = "Wait"

\* C21: when the command acknowledging a PDP deactivation completes, every
\* slot of the table, the server slot included, is Unused and its buffer
\* empty.
C21_FullReset ==
    last.op = "deact result" =>
        \A i \in 0..MAXSOCKETS : socks[i] = "undefined" /\ sockData[i] = <<>>

\* C29: the re-check of a deferred close issues no close command for a slot
\* that has been created again since the close was deferred.
C29_RetryClosesOwnConnection ==
    [][(last'.op = "closeSocket" /\ last'.sckt \in realloc) =>
          CloseCommands(atq') = CloseCommands(atq)]_vars

\* C30: the answer to an open leaves a slot that is Unused as it is: it
\* changes only a slot that is still Connecting.
C30_LateOpenIgnored ==
    [][\A i \in 0..MAXSOCKETS :
          (/\ atq # <<>> /\ Head(atq).cmd = "AT+QIOPEN" /\ Head(atq).sckt = i
           /\ socks[i] = "undefined")
            => socks'[i] = "undefined"]_vars

\* C22: while the service is stopped (geoLocStop() was called and
\* geoLocStart() was not called since), the cached position is empty, also
\* after the answer to a query issued before the stop.
C22_StoppedCacheEmpty ==
    ~geoPos => longlat = <<>>

\* C23: a final answer (OK, timeout, any other line that is not a position)
\* sets exactly one re-trigger timer while the service runs and none while
\* it is stopped, a position line sets none, and once the service stays
\* stopped the queries end.
C23_Reschedule ==
    /\ [][\A r \in GeoAnswers : GeoAnswer(r) =>
             Len(geot') = Len(geot) +
                 (IF r \in GeoTerminals /\ geoPos THEN 1 ELSE 0)]_vars
    /\ (<>[](~geoPos) => <>[](geoq = <<>> /\ geot = <<>>))

C23_Witness ==
    /\ geoLast.op = "answer" /\ geoLast.kind = "timeout"
    /\ ~geoPos /\ geoLast.starts > 0 /\ geot = <<>> /\ geoq = <<>>

\* C24: a dispatch to the continuation handler takes from the arriving bytes
\* as many as are there or as are still missing of the declared length,
\* whichever is less, appends them to the buffer of the token's socket and to
\* no other, and leaves with the engine either the bytes after the payload or
\* the token of the same socket with the count reduced by the bytes taken;
\* when the payload is complete the buffer has grown by exactly the payload.
C24_Continuation ==
    [][DispatchRecv2 =>
         LET sid   == rx.sid
             rem   == Len(rx.payload) - (Len(sockData[sid]) - Len(rx.pre))
             chunk == Head(wire)
             take  == Min(Len(chunk), rem)
         IN  /\ line = ContToken(NumToStr(sid), rem)
             /\ sockData' = [sockData EXCEPT ![sid] = @ \o SubSeq(chunk, 1, take)]
             /\ line' = IF Len(chunk) >= rem
                        THEN SubSeq(chunk, rem + 1, Len(chunk))
                        ELSE ContToken(NumToStr(sid), rem - take)
             /\ Len(chunk) >= rem => /\ sockData'[sid] = rx.pre \o rx.payload
                                     /\ line' = rx.tail]_vars

C24_Witness ==
    /\ rxsteps = <<"receiveHandler", "receiveHandler2", "receiveHandler2">>
    /\ wire = <<>>
    /\ rx.tail # <<>> /\ line = rx.tail
    /\ sockData[rx.sid] = rx.pre \o rx.payload

\* C25: init does not come to rest in the EchoOff state: whatever the modem
\* answers to ATE0, a command stays outstanding or the SIM check is issued.
C25_EchoOffGoesOn ==
    s = "AT_ECHO_OFF" => eng # Idle

\* C26: an attach command is scheduled or issued only after a signal-quality
\* query reported a reading other than 99,99; a query that ends with OK
\* after reporting 99,99 sets the timer of the next query, of 500 ms, and
\* issues no attach.
C26_AttachAfterReading ==
    /\ []((issued["AT+CGATT=1"] > 0 \/ eng.cmd = "AT+CGATT=1") =>
            Count(okLog, "signal") = 1)
    /\ [][(/\ eng = Cmd("AT+CSQ") /\ csq = "+CSQ: 99,99"
           /\ AtQuerySignalQuality("OK")) =>
             /\ eng' = Timer("AT+CSQ", 500)
             /\ s' = "AT_QUERY_SIGNAL_QUALITY"]_vars

C26_Witness ==
    /\ s = "AT_QUERY_SIGNAL_QUALITY" /\ csq = "+CSQ: 99,99"
    /\ eng = Timer("AT+CSQ", 500) /\ issued["AT+CGATT=1"] = 0

SuccessOrder == <<"sync", "sim", "signal", "attach", "operator">>

\* C28: init's callback gets null only after the probe was answered OK, then
\* the SIM check answered OK, then a signal reading other than 99,99 came,
\* then an attach was answered OK, then the operator query was answered OK.
C28_SuccessPath ==
    Count(cbLog, "null") > 0 => okLog = SuccessOrder

C28_Witness ==
    /\ cbLog = <<"null">> /\ eng = Idle /\ okLog = SuccessOrder
    /\ nAttachErr = 1 /\ issued["AT+COPS?"] = 1

\* C33: at any time at most one location query is outstanding at the engine
\* or scheduled by a timer.
C33_OnePollLoop ==
    Len(geoq) + Len(geot) <= 1

\* C31: from the acceptance of a send until a terminal condition of that
\* send (SEND OK, SEND FAIL, ERROR, a guard time-out of its own), the busy
\* flag is true.
C31_BusyThroughout ==
    \A id \in 1..nSend : id \notin term => busy

\* C32: while the busy flag is true the response timer of the last accepted
\* send is pending, and whenever the flag is true it becomes false again,
\* whatever the modem answers or does not answer.
C32_BusyReleased ==
    /\ [](busy => \E i \in 1..Len(timers) :
                     timers[i].kind = "rsp" /\ timers[i].n = nSend)
    /\ (busy ~> ~busy)

C32_Witness ==
    /\ last.op = "abortWaitingPrompt" /\ last.id = 1 /\ nSend = 1
    /\ ~busy /\ writes = <<<<"AT+QISEND", 1>>>>

\* C34: every message the handler emits is the message of a packet the
\* broker sent, also when the chunk holds bytes of the next packet, and when
\* everything has been delivered each packet's message was emitted and no
\* byte is kept.
C34_ExactPackets ==
    /\ \A i \in 1..Len(mqOut) : \E j \in 1..Len(mqSrc) : mqOut[i] = mqSrc[j]
    /\ mqIn = <<>> => Len(mqOut) = Len(mqSrc) /\ partData = <<>>

=============================================================================
